---- MODULE Spec2Model ----
(***************************************************************************)
(* A model of the CHIP-8 interpreter of src/src/main.rs: the Processor     *)
(* record, its constructor, and the main loop that waits for a clock tick, *)
(* fetches a 16-bit instruction and executes (dispatches) it.              *)
(*                                                                         *)
(* Addresses and register indices are 0-based as in the source.  The       *)
(* registers are a function over 0..len-1.  The memory vector is held as   *)
(* its length, the byte it was filled with, and the cells written since    *)
(* (Byte reads address a of it).  The display (a BitVec) is its length and *)
(* the set of indices of its set bits.                                     *)
(***************************************************************************)
EXTENDS Integers, Sequences, FiniteSets, TLC

VARIABLES
    instruction,      \* Processor.instruction      : u16
    program_counter,  \* Processor.program_counter  : u16
    index,            \* Processor.index            : u16
    delay_timer,      \* Processor.delay_timer      : u16
    sound_timer,      \* Processor.sound_timer      : u16
    stack,            \* Processor.stack            : Vec<u16>
    memory,           \* Processor.memory           : Vec<u8>
    registers,        \* Processor.registers        : Vec<u8>
    display,          \* Processor.display          : BitVec
    tick_rate,        \* Processor.tick_rate        : u64
    pos,              \* where control is: "new", "recv", "fetch", "execute", "returned"
    result,           \* what main_loop returned: "running" or the Err string
    ticks,            \* history: number of clock ticks received by timer.recv()
    executed          \* history: the last HistLen calls of execute

vars == <<instruction, program_counter, index, delay_timer, sound_timer, stack,
          memory, registers, display, tick_rate, pos, result, ticks, executed>>

machine == <<instruction, program_counter, index, delay_timer, sound_timer, stack,
             memory, registers, display, tick_rate>>

-----------------------------------------------------------------------------
(* Program constants *)

\* vec![0; 0x1000]
MemoryLength == 4096

\* memory[0x50..0xA0]: first address of the font region
FontBase == 80

\* memory[0x50..0xA0]: first address after the font region
FontEnd == 160

\* program_counter: 0x50
StartPC == 80

\* BitVec::from_elem(0x40 * 0x20, false)
DisplayLength == 2048

\* tick_rate: 2
TickRate == 2

\* u16
Word == 65536

-----------------------------------------------------------------------------
(* Bounds of the model *)

\* number of execute calls remembered in the history variable
HistLen == 2

\* largest initial timer value the unit harness starts from
MaxTimer == 5

-----------------------------------------------------------------------------
(* Machine arithmetic *)

RECURSIVE BitAnd(_, _)
BitAnd(a, b) ==
    IF a = 0 \/ b = 0 THEN 0
    ELSE (a % 2) * (b % 2) + 2 * BitAnd(a \div 2, b \div 2)

RECURSIVE BitOr(_, _)
BitOr(a, b) ==
    IF a = 0 THEN b
    ELSE IF b = 0 THEN a
    ELSE (IF (a % 2) + (b % 2) > 0 THEN 1 ELSE 0) + 2 * BitOr(a \div 2, b \div 2)

\* u16 << n : bits shifted past bit 15 are dropped
Shl16(a, n) == (a * (2 ^ n)) % Word

\* u16 >> n
Shr(a, n) == a \div (2 ^ n)

HexDigits == <<"0", "1", "2", "3", "4", "5", "6", "7",
               "8", "9", "A", "B", "C", "D", "E", "F">>

\* format!("{:#06X}", i): "0x" and the value in upper-case hex, zero-padded to
\* six characters in all
Hex06(i) ==
    "0x" \o HexDigits[((i \div 4096) % 16) + 1]
         \o HexDigits[((i \div 256) % 16) + 1]
         \o HexDigits[((i \div 16) % 16) + 1]
         \o HexDigits[(i % 16) + 1]

-----------------------------------------------------------------------------
(* Construction *)

FONT ==
    << 240, 144, 144, 144, 240,   \* 0
        32,  96,  32,  32, 112,   \* 1
       240,  16, 240, 128, 240,   \* 2
       240,  16, 240,  16, 240,   \* 3
       144, 144, 240,  16,  16,   \* 4
       240, 128, 240,  16, 240,   \* 5
       240, 128, 240, 144, 240,   \* 6
       240,  16,  32,  64,  64,   \* 7
       240, 144, 240, 144, 240,   \* 8
       240, 144, 240,  16, 240,   \* 9
       240, 144, 240, 144, 144,   \* A
       224, 144, 224, 144, 224,   \* B
       240, 128, 128, 128, 240,   \* C
       224, 144, 144, 144, 224,   \* D
       240, 128, 240, 128, 240,   \* E
       240, 128, 240, 128, 128 >> \* F

\* vec![b; n]
Vec(b, n) == [len |-> n, fill |-> b, cells |-> [a \in {} |-> 0]]

\* mem[a], for a < mem.len
Byte(mem, a) == IF a \in DOMAIN mem.cells THEN mem.cells[a] ELSE mem.fill

\* mem[at .. at + Len(bytes)].copy_from_slice(bytes)
CopyFromSlice(mem, at, bytes) ==
    LET written == at .. at + Len(bytes) - 1
    IN  [mem EXCEPT !.cells =
            [a \in DOMAIN mem.cells \cup written |->
                IF a \in written THEN bytes[a - at + 1] ELSE mem.cells[a]]]

\* BitVec::from_elem(n, b)
BitVecFromElem(n, b) == [len |-> n, ones |-> IF b THEN 0 .. n - 1 ELSE {}]

\* (fault: the font copied to the start of memory)
load_font_at_zero(mem) == CopyFromSlice(mem, 0, SubSeq(FONT, 1, FontEnd - FontBase))

\* memory[0x50..0xA0].copy_from_slice(&FONT)
load_font(mem) == CopyFromSlice(mem, FontBase, SubSeq(FONT, 1, FontEnd - FontBase))

\* Processor::new()
New ==
    [ instruction     |-> 0,
      program_counter |-> StartPC,
      index           |-> 0,
      delay_timer     |-> 0,
      sound_timer     |-> 0,
      stack           |-> << >>,
      memory          |-> load_font(Vec(0, MemoryLength)),
      registers       |-> [r \in 0 .. 1 |-> IF r = 0 THEN 0 ELSE 15],
      display         |-> BitVecFromElem(DisplayLength, FALSE),
      tick_rate       |-> TickRate ]

-----------------------------------------------------------------------------
(* fetch *)

\* (fault: the bound test written with >=)
FetchOutOfBoundsStrict(pc, mem) == pc >= mem.len - 2

\* if self.program_counter as usize > memory.len() - 2
FetchOutOfBounds(pc, mem) == pc > mem.len - 2

\* (fault: the two bytes combined low byte first)
FetchWordSwapped(mem, pc) ==
    BitOr(Shl16(Byte(mem, (pc + 1) % Word), 8), Byte(mem, pc))

\* ((memory[pc] as u16) << 8) | (memory[pc + 1] as u16)
FetchWord(mem, pc) ==
    BitOr(Shl16(Byte(mem, pc), 8), Byte(mem, (pc + 1) % Word))

\* (fault: the program counter advanced by one byte)
AdvanceByOne(pc) == (pc + 1) % Word

\* self.program_counter += 2
Advance(pc) == (pc + 2) % Word

\* Err("Program counter out of bounds!".to_string())
OutOfBoundsError == "Program counter out of bounds!"

-----------------------------------------------------------------------------
(* execute: decoding *)

Nibble == 0 .. 15

\* (fault: the second nibble shifted by 4 instead of 8)
NibblesShortShift(i) ==
    << Shr(BitAnd(i, 61440), 12),
       Shr(BitAnd(i, 3840), 4),
       Shr(BitAnd(i, 240), 4),
       BitAnd(i, 15) >>

\* the tuple `nibbles`
Nibbles(i) ==
    << Shr(BitAnd(i, 61440), 12),
       Shr(BitAnd(i, 3840), 8),
       Shr(BitAnd(i, 240), 4),
       BitAnd(i, 15) >>

\* let x = nibbles.1
DecodeX(i) == Nibbles(i)[2]

\* let y = nibbles.2
DecodeY(i) == Nibbles(i)[3]

\* let n = nibbles.3
DecodeN(i) == Nibbles(i)[4]

\* let kk = instruction & 0x00FF
DecodeKK(i) == BitAnd(i, 255)

\* let nnn = instruction & 0x0FFF
DecodeNNN(i) == BitAnd(i, 4095)

-----------------------------------------------------------------------------
(* execute: dispatch *)

\* The arms of `match nibbles`, in source order; each arm is the set of values
\* it accepts in each of the four positions (`_` accepts every nibble).  Every
\* arm's body is empty.
Arms ==
    << << {0},  {0},    {14},   {0}    >>,   \* CLS
       << {0},  {0},    {14},   {14}   >>,   \* RET
       << {0},  Nibble, Nibble, Nibble >>,   \* SYS addr
       << {1},  Nibble, Nibble, Nibble >>,   \* JP addr
       << {2},  Nibble, Nibble, Nibble >>,   \* CALL addr
       << {3},  Nibble, Nibble, Nibble >>,   \* SE Vx, byte
       << {4},  Nibble, Nibble, Nibble >>,   \* SNE Vx, byte
       << {5},  Nibble, Nibble, {0}    >>,   \* SE Vx, Vy
       << {6},  Nibble, Nibble, Nibble >>,   \* LD Vx, byte
       << {7},  Nibble, Nibble, Nibble >>,   \* ADD Vx, byte
       << {8},  Nibble, Nibble, {0}    >>,   \* LD Vx, Vy
       << {8},  Nibble, Nibble, {1}    >>,   \* OR Vx, Vy
       << {8},  Nibble, Nibble, {2}    >>,   \* AND Vx, Vy
       << {8},  Nibble, Nibble, {3}    >>,   \* XOR Vx, Vy
       << {8},  Nibble, Nibble, {4}    >>,   \* ADD Vx, Vy
       << {8},  Nibble, Nibble, {5}    >>,   \* SUB Vx, Vy
       << {8},  Nibble, Nibble, {6}    >>,   \* SHR Vx {, Vy}
       << {8},  Nibble, Nibble, {7}    >>,   \* SUBN Vx, Vy
       << {8},  Nibble, Nibble, {14}   >>,   \* SHL Vx {, Vy}
       << {9},  Nibble, Nibble, {0}    >>,   \* SNE Vx, Vy
       << {10}, Nibble, Nibble, Nibble >>,   \* LD I, addr
       << {11}, Nibble, Nibble, Nibble >>,   \* JP V0, addr
       << {12}, Nibble, Nibble, Nibble >>,   \* RND Vx, byte
       << {13}, Nibble, Nibble, Nibble >>,   \* DRW Vx, Vy, nibble
       << {14}, Nibble, {9},    {14}   >>,   \* SKP Vx
       << {14}, Nibble, {10},   {1}    >>,   \* SKNP Vx
       << {15}, Nibble, {0},    {7}    >>,   \* LD Vx, DT
       << {15}, Nibble, {0},    {10}   >>,   \* LD Vx, K
       << {15}, Nibble, {1},    {5}    >>,   \* LD DT, Vx
       << {15}, Nibble, {1},    {8}    >>,   \* LD ST, Vx
       << {15}, Nibble, {1},    {14}   >>,   \* ADD I, Vx
       << {15}, Nibble, {2},    {9}    >>,   \* LD F, Vx
       << {15}, Nibble, {3},    {3}    >>,   \* LD B, Vx
       << {15}, Nibble, {5},    {5}    >>,   \* LD [I], Vx
       << {15}, Nibble, {6},    {5}    >> >> \* LD Vx, [I]

\* (fault: an arm chosen by the top nibble alone)
ArmMatchesTopNibble(arm, nib) == nib[1] \in arm[1]

\* a tuple pattern matches when each position does
ArmMatches(arm, nib) == \A k \in 1 .. 4 : nib[k] \in arm[k]

\* (fault: the SYS arm, the third, left out)
MatchedArmWithoutSys(nib) ==
    LET hits == {k \in (1 .. Len(Arms)) \ {3} : ArmMatches(Arms[k], nib)}
    IN  IF hits = {} THEN 0 ELSE CHOOSE k \in hits : \A j \in hits : k <= j

\* the first arm that matches, 0 when only the final `_` arm does
MatchedArm(nib) ==
    LET hits == {k \in 1 .. Len(Arms) : ArmMatches(Arms[k], nib)}
    IN  IF hits = {} THEN 0 ELSE CHOOSE k \in hits : \A j \in hits : k <= j

\* Err(format!("Invalid instruction: {:#06X}!", instruction))
InvalidInstructionError(i) == "Invalid instruction: " \o Hex06(i) \o "!"

\* the value execute returns for instruction i
ExecuteResult(i) ==
    IF MatchedArm(Nibbles(i)) = 0 THEN InvalidInstructionError(i) ELSE "Ok"

-----------------------------------------------------------------------------
(* Inputs: the memory contents and field values the processor is run on *)

\* `base` with the bytes of `prog` written from address `at` on
Loaded(base, at, prog) == CopyFromSlice(base, at, prog)

\* every byte of memory equal to b
Filled(b) == Vec(b, MemoryLength)

\* Byte sequences placed where the program counter starts.
Programs ==
    { << >>,                    \* nothing: memory as Processor::new leaves it
      << 32, 82, 0, 238 >>,     \* 2052 CALL 0x052 ; 00EE RET
      << 0, 238 >>,             \* 00EE RET
      << 48, 0 >>,              \* 3000 SE V0, 0x00
      << 49, 0 >>,              \* 3100 SE V1, 0x00
      << 96, 5 >>,              \* 6005 LD V0, 0x05
      << 240, 10, 0, 224 >>,    \* F00A LD V0, K ; 00E0 CLS
      << 80, 1 >> }             \* 5001 (no such instruction)

\* The memory contents main_loop is run on.  The source has no loader (the
\* program loader is an external collaborator), so the contents are an input:
\* the memory Processor::new builds, that memory with a short program over the
\* first font bytes, and two memories filled with one byte (0x0000 SYS and
\* 0x1212 JP everywhere), which execute accepts at every address.
Images ==
    {Loaded(New.memory, StartPC, p) : p \in Programs}
        \cup {Filled(0), Filled(18)}

\* Memory of the unit harness: 3A05, 6A07, 5001 at 0x200 and 00E0, 1234 in the
\* last four bytes.
UnitMemory ==
    Loaded(Loaded(New.memory, 512, << 58, 5, 106, 7, 80, 1 >>),
           MemoryLength - 4, << 0, 224, 18, 52 >>)

\* Memory of the unit harness for drawing: the glyph F0 90 90 90 F0 at
\* address 0, where the index register points, and D005, D005, 5001 at 0x200.
UnitDrawMemory ==
    Loaded(Loaded(New.memory, 0, << 240, 144, 144, 144, 240 >>),
           512, << 208, 5, 208, 5, 80, 1 >>)

UnitImages == {UnitMemory, UnitDrawMemory, Filled(18)}

\* Program counters of the unit harness: 0x200, around the end of memory, and
\* the largest u16.
UnitPCs ==
    {512, MemoryLength - 4, MemoryLength - 3, MemoryLength - 2,
     MemoryLength - 1, MemoryLength, Word - 1}

\* Register files of the unit harness: the one Processor::new builds, and
\* sixteen registers with VA = 5 and with VA = 0.
UnitRegisters ==
    { New.registers,
      [r \in 0 .. 15 |-> IF r = 10 THEN 5 ELSE 0],
      [r \in 0 .. 15 |-> 0] }

UnitTimers == {0, MaxTimer}

-----------------------------------------------------------------------------
(* History *)

\* one call of execute: the program counter, stack depth, registers and
\* display it was called with, the instruction, and whether it returned Ok
Call(pc, op, depth, regs, disp, ok) ==
    [pc |-> pc, op |-> op, depth |-> depth, regs |-> regs, display |-> disp,
     ok |-> ok]

Remember(hist, e) ==
    LET h == Append(hist, e)
    IN  IF Len(h) > HistLen THEN SubSeq(h, Len(h) - HistLen + 1, Len(h)) ELSE h

-----------------------------------------------------------------------------
(* Initial states *)

Fresh(p) ==
    /\ instruction = p.instruction
    /\ program_counter = p.program_counter
    /\ index = p.index
    /\ delay_timer = p.delay_timer
    /\ sound_timer = p.sound_timer
    /\ stack = p.stack
    /\ memory = p.memory
    /\ registers = p.registers
    /\ display = p.display
    /\ tick_rate = p.tick_rate
    /\ result = "running"
    /\ ticks = 0
    /\ executed = << >>

\* main: let mut processor = Processor::new();
Init ==
    /\ Fresh(New)
    /\ pos = "new"

\* A processor whose fields a test has set, about to enter main_loop.
InitUnit ==
    /\ \E m \in UnitImages, pc \in UnitPCs, rs \in UnitRegisters, dt \in UnitTimers :
            Fresh([New EXCEPT !.memory = m, !.program_counter = pc,
                              !.registers = rs, !.delay_timer = dt])
    /\ pos = "recv"

\* A processor holding an arbitrary 16-bit instruction, about to call execute.
InitExecute ==
    /\ \E i \in 0 .. Word - 1 : Fresh([New EXCEPT !.instruction = i])
    /\ pos = "execute"

-----------------------------------------------------------------------------
(* Actions *)

\* main calls processor.main_loop(), on the memory contents given: the timer
\* is created and the loop entered.
Enter ==
    /\ pos = "new"
    /\ \E m \in Images : memory' = m
    /\ pos' = "recv"
    /\ UNCHANGED <<instruction, program_counter, index, delay_timer, sound_timer,
                   stack, registers, display, tick_rate, result, ticks, executed>>

\* timer.recv(): the next clock tick arrives
Recv ==
    /\ pos = "recv"
    /\ ticks' = ticks + 1
    /\ pos' = "fetch"
    /\ UNCHANGED <<machine, result, executed>>

\* (fault: the program counter advanced before the bound test, so that a
\* failed fetch leaves it moved)
FetchAdvancesFirst ==
    /\ pos = "fetch"
    /\ program_counter' = Advance(program_counter)
    /\ IF FetchOutOfBounds(program_counter, memory)
       THEN /\ result' = OutOfBoundsError
            /\ pos' = "returned"
            /\ UNCHANGED instruction
       ELSE /\ instruction' = FetchWord(memory, program_counter)
            /\ pos' = "execute"
            /\ UNCHANGED result
    /\ UNCHANGED <<index, delay_timer, sound_timer, stack, memory, registers,
                   display, tick_rate, ticks, executed>>

\* self.fetch()? ; on Err main_loop returns it
Fetch ==
    /\ pos = "fetch"
    /\ IF FetchOutOfBounds(program_counter, memory)
       THEN /\ result' = OutOfBoundsError
            /\ pos' = "returned"
            /\ UNCHANGED <<instruction, program_counter>>
       ELSE /\ instruction' = FetchWord(memory, program_counter)
            /\ program_counter' = Advance(program_counter)
            /\ pos' = "execute"
            /\ UNCHANGED result
    /\ UNCHANGED <<index, delay_timer, sound_timer, stack, memory, registers,
                   display, tick_rate, ticks, executed>>

\* (fault: the JP arm given a body, program_counter = nnn)
ExecuteWithJump ==
    /\ pos = "execute"
    /\ LET r == ExecuteResult(instruction)
       IN  /\ executed' = Remember(executed,
                              Call(program_counter, instruction, Len(stack),
                                   registers, display, r = "Ok"))
           /\ IF r = "Ok"
              THEN pos' = "recv" /\ UNCHANGED result
              ELSE pos' = "returned" /\ result' = r
    /\ program_counter' = IF Nibbles(instruction)[1] = 1
                             THEN DecodeNNN(instruction)
                             ELSE program_counter
    /\ UNCHANGED <<instruction, index, delay_timer, sound_timer, stack, memory,
                   registers, display, tick_rate, ticks>>

\* self.execute()? ; on Err main_loop returns it, on Ok the loop goes round
Execute ==
    /\ pos = "execute"
    /\ LET r == ExecuteResult(instruction)
       IN  /\ executed' = Remember(executed,
                              Call(program_counter, instruction, Len(stack),
                                   registers, display, r = "Ok"))
           /\ IF r = "Ok"
              THEN pos' = "recv" /\ UNCHANGED result
              ELSE pos' = "returned" /\ result' = r
    /\ UNCHANGED <<machine, ticks>>

Next == Enter \/ Recv \/ Fetch \/ Execute

NextUnit == Recv \/ Fetch \/ Execute

NextExecute == Execute

\* main: Processor::new() then main_loop()
Spec == Init /\ [][Next]_vars

\* main_loop on a processor whose fields were set beforehand
SpecUnit == InitUnit /\ [][NextUnit]_vars

\* one call of execute on each 16-bit instruction
SpecExecute == InitExecute /\ [][NextExecute]_vars

-----------------------------------------------------------------------------
(* Properties *)

\* the most recent call of execute
LastCall == executed[Len(executed)]

\* The opcode table of the specification, section 4.4, read off the
\* instruction value: whether some row matches i.
InOpcodeTable(i) ==
    LET n0 == i \div 4096
        n3 == i % 16
        lo == i % 256
    IN  \/ n0 \in {0, 1, 2, 3, 4, 6, 7, 10, 11, 12, 13}
        \/ n0 \in {5, 9} /\ n3 = 0
        \/ n0 = 8 /\ n3 \in {0, 1, 2, 3, 4, 5, 6, 7, 14}
        \/ n0 = 14 /\ lo \in {158, 161}
        \/ n0 = 15 /\ lo \in {7, 10, 21, 24, 30, 41, 51, 85, 101}

\* C1: execute returns the invalid-instruction error, carrying the raw 16-bit
\* value, exactly for the instructions that match no row of the opcode table;
\* every instruction that matches a row returns Ok.
C1_InvalidIffNoRow ==
    /\ \A k \in 1 .. Len(executed) : executed[k].ok <=> InOpcodeTable(executed[k].op)
    /\ (pos = "recv" /\ executed # << >>) =>
            /\ LastCall.ok /\ LastCall.op = instruction
            /\ result = "running"
    /\ (executed # << >> /\ ~LastCall.ok) =>
            /\ pos = "returned"
            /\ LastCall.op = instruction
            /\ result = "Invalid instruction: " \o Hex06(instruction) \o "!"
            /\ instruction = 20481 => result = "Invalid instruction: 0x5001!"
            /\ instruction = 36783 => result = "Invalid instruction: 0x8FAF!"
            /\ instruction = 57344 => result = "Invalid instruction: 0xE000!"

\* C1 witness: execute was called on 0x5001 and returned the error naming it.
C1_Witness ==
    /\ pos = "returned"
    /\ instruction = 20481
    /\ result = "Invalid instruction: 0x5001!"
    /\ executed # << >> /\ ~LastCall.ok

\* C2: a fetch at a program counter PC <= 4094 sets the instruction to
\* memory[PC] * 256 + memory[PC + 1], sets the program counter to PC + 2 and
\* changes nothing else of the machine.
C2_FetchBigEndian ==
    [][(pos = "fetch" /\ program_counter <= 4094) =>
            /\ pos' = "execute"
            /\ instruction' = Byte(memory, program_counter) * 256
                                + Byte(memory, program_counter + 1)
            /\ program_counter' = program_counter + 2
            /\ UNCHANGED <<index, delay_timer, sound_timer, stack, memory,
                           registers, display, tick_rate, result>>]_vars

\* C2 witness: the fetch at PC = 0x200 of the bytes 3A 05 has happened.
C2_Witness ==
    /\ pos = "execute"
    /\ program_counter = 514
    /\ Byte(memory, 512) = 58 /\ Byte(memory, 513) = 5
    /\ instruction = 14853

\* C3: fetch fails with the out-of-bounds error exactly when the program
\* counter exceeds 4094, and a fetch that succeeds reads only addresses in
\* [0, 4096).
C3_FetchBounds ==
    [][pos = "fetch" =>
            /\ (program_counter > 4094) <=>
                    (pos' = "returned" /\ result' = "Program counter out of bounds!")
            /\ (program_counter <= 4094) <=> (pos' = "execute")
            /\ pos' = "execute" =>
                    {program_counter, program_counter + 1} \subseteq 0 .. 4095]_vars

\* C3 witness: a fetch at PC = 4095 has failed with the out-of-bounds error.
C3_Witness ==
    /\ pos = "returned"
    /\ result = "Program counter out of bounds!"
    /\ program_counter = 4095

\* C4 as stated: in every reachable state the program counter is even and at
\* most 4094.
C4_Original ==
    /\ program_counter % 2 = 0
    /\ program_counter <= 4094

\* C4 amended: in every reachable state the program counter is even and lies
\* between 0x50 and 4096; it is 4096 once the instruction at 4094 was fetched.
C4_AlignedUpToEnd ==
    /\ program_counter % 2 = 0
    /\ program_counter >= 80
    /\ program_counter <= 4096

\* C4 witness: the whole memory was run through and the program counter
\* stands at 4096, where the next fetch failed.
C4_Witness ==
    /\ program_counter = 4096
    /\ pos = "returned"
    /\ result = "Program counter out of bounds!"

IsCall(op) == op \div 4096 = 2

IsRet(op) == op = 238

\* C5: after d CALLs followed by d RETs the program counter is the address of
\* the instruction after the outermost CALL and the call stack is empty.
C5_CallReturnRoundTrip ==
    \A d \in 1 .. (HistLen \div 2) :
        LET n == Len(executed)
        IN  ( /\ pos = "recv"
              /\ n >= 2 * d
              /\ \A k \in 1 .. d :
                    IsCall(executed[n - 2 * d + k].op) /\ executed[n - 2 * d + k].ok
              /\ \A k \in d + 1 .. 2 * d :
                    IsRet(executed[n - 2 * d + k].op) /\ executed[n - 2 * d + k].ok )
            => ( /\ program_counter = executed[n - 2 * d + 1].pc
                 /\ stack = << >> )

\* C6: the call stack never holds more than 16 return addresses; a CALL made
\* with 16 addresses on the stack and a RET made with none are errors, and a
\* CALL made with fewer than 16 succeeds.
C6_StackBounds ==
    /\ Len(stack) <= 16
    /\ \A k \in 1 .. Len(executed) :
            LET e == executed[k]
            IN  /\ (IsRet(e.op) /\ e.depth = 0) => ~e.ok
                /\ (IsCall(e.op) /\ e.depth >= 16) => ~e.ok
                /\ (IsCall(e.op) /\ e.depth < 16) => e.ok

\* C7: one fetch+execute cycle of 3xkk at PC leaves the program counter at
\* PC + 4 when Vx = kk and at PC + 2 otherwise.
C7_SkipIfEqual ==
    ( /\ pos = "recv"
      /\ executed # << >>
      /\ LastCall.op \div 4096 = 3
      /\ (LastCall.op \div 256) % 16 \in DOMAIN registers )
    => LET x  == (LastCall.op \div 256) % 16
           kk == LastCall.op % 256
           at == LastCall.pc - 2
       IN  program_counter = IF LastCall.regs[x] = kk THEN at + 4 ELSE at + 2

\* C8: executing 6xkk leaves register x equal to kk and every other register
\* as it was.
C8_LoadImmediate ==
    ( /\ pos = "recv"
      /\ executed # << >>
      /\ LastCall.op \div 4096 = 6 )
    => LET x  == (LastCall.op \div 256) % 16
           kk == LastCall.op % 256
       IN  /\ x \in DOMAIN registers
           /\ registers[x] = kk
           /\ DOMAIN registers = DOMAIN LastCall.regs
           /\ \A r \in DOMAIN registers \ {x} : registers[r] = LastCall.regs[r]

\* C9: the delay timer, started at no more than MaxTimer, has decayed to 0
\* once MaxTimer ticks have gone by, and stays there.
C9_TimerDecay ==
    ticks >= MaxTimer => delay_timer = 0

IsWaitKey(op) == op \div 4096 = 15 /\ op % 256 = 10

\* C10: once Fx0A has been executed no instruction is fetched until a key
\* press is delivered (the machine receives none): the instruction and the
\* program counter stay those of the Fx0A.
C10_WaitForKey ==
    \A k \in 1 .. Len(executed) :
        (IsWaitKey(executed[k].op) /\ executed[k].ok) =>
            /\ k = Len(executed)
            /\ pos \in {"recv", "fetch"}
            /\ instruction = executed[k].op
            /\ program_counter = executed[k].pc

IsDraw(op) == op \div 4096 = 13

\* the n sprite bytes Dxyn reads, memory[I .. I + n - 1]
Sprite(op) == [k \in 0 .. (op % 16) - 1 |-> Byte(memory, index + k)]

NonZeroSprite(op) == \E k \in DOMAIN Sprite(op) : Sprite(op)[k] # 0

\* C11: drawing a non-zero sprite on a blank display sets pixels and VF = 0;
\* drawing it a second time at the same place gives back the display as it
\* was before the first draw and sets VF = 1.
C11_DrawTwice ==
    LET n == Len(executed)
    IN  /\ ( /\ pos = "recv" /\ n >= 1
              /\ IsDraw(executed[n].op) /\ executed[n].ok
              /\ NonZeroSprite(executed[n].op)
              /\ executed[n].display.ones = {} )
            => ( /\ display.ones # {}
                 /\ 15 \in DOMAIN registers
                 /\ registers[15] = 0 )
        /\ ( /\ pos = "recv" /\ n >= 2
              /\ IsDraw(executed[n].op) /\ executed[n].ok
              /\ executed[n - 1].op = executed[n].op /\ executed[n - 1].ok
              /\ NonZeroSprite(executed[n].op) )
            => ( /\ display = executed[n - 1].display
                 /\ 15 \in DOMAIN registers
                 /\ registers[15] = 1 )

\* C12: right after construction the program counter is the load address
\* 0x200, above the font region 0x050-0x09F, so that the first fetch does not
\* read font bytes.
C12_StartsAtLoadAddress ==
    pos = "new" =>
        /\ program_counter = 512
        /\ program_counter > 159
        /\ \A a \in {program_counter, program_counter + 1} : a \notin 80 .. 159

\* C13: the register file always has exactly the sixteen registers V0..VF,
\* each a byte, and all are zero right after construction.
C13_SixteenRegisters ==
    /\ DOMAIN registers = 0 .. 15
    /\ \A r \in DOMAIN registers : registers[r] \in 0 .. 255
    /\ pos = "new" => \A r \in DOMAIN registers : registers[r] = 0

\* C14: right after construction memory has 4096 bytes, the 80 font bytes at
\* 0x050..0x09F and zero everywhere else, the call stack is empty, both timers
\* and the index register are zero and all 64*32 display pixels are unset.
C14_AfterConstruction ==
    pos = "new" =>
        /\ memory.len = 4096
        /\ Len(FONT) = 80
        /\ \A i \in 0 .. 79 : Byte(memory, 80 + i) = FONT[i + 1]
        /\ Byte(memory, 80) = 240 /\ Byte(memory, 85) = 32 /\ Byte(memory, 159) = 128
        /\ \A a \in 0 .. 4095 : a \notin 80 .. 159 => Byte(memory, a) = 0
        /\ stack = << >>
        /\ delay_timer = 0 /\ sound_timer = 0 /\ index = 0
        /\ display.len = 64 * 32
        /\ display.ones = {}

\* C14 witness: the processor has been constructed and not yet run, with the
\* first glyph in place.
C14_Witness ==
    /\ pos = "new"
    /\ ticks = 0
    /\ <<Byte(memory, 80), Byte(memory, 81), Byte(memory, 84)>> = <<240, 144, 240>>

\* C15: decoding an instruction i gives four nibbles n0..n3 in 0..15 with
\* i = n0*4096 + n1*256 + n2*16 + n3, and x = n1, y = n2, n = n3,
\* kk = i mod 256, nnn = i mod 4096.
C15_Decode ==
    LET i   == instruction
        nib == Nibbles(i)
    IN  /\ Len(nib) = 4
        /\ \A k \in 1 .. 4 : nib[k] \in 0 .. 15
        /\ i = nib[1] * 4096 + nib[2] * 256 + nib[3] * 16 + nib[4]
        /\ DecodeX(i) = nib[2]
        /\ DecodeY(i) = nib[3]
        /\ DecodeN(i) = nib[4]
        /\ DecodeKK(i) = i % 256
        /\ DecodeNNN(i) = i % 4096

\* C15 witness: execute has decoded 0xABCD, whose nibbles all differ.
C15_Witness ==
    /\ executed # << >>
    /\ LastCall.op = 43981
    /\ instruction = 43981
    /\ Nibbles(instruction) = << 10, 11, 12, 13 >>

\* C16: 00E0 and 00EE are matched by their own arms, before the 0nnn arm;
\* every other instruction with top nibble 0 returns Ok and leaves program
\* counter, registers, index, stack, memory, timers and display unchanged.
C16_SysIsNoOp ==
    [][(pos = "execute" /\ instruction < 4096) =>
            /\ instruction = 224 => MatchedArm(Nibbles(instruction)) = 1
            /\ instruction = 238 => MatchedArm(Nibbles(instruction)) = 2
            /\ instruction \notin {224, 238} =>
                    /\ MatchedArm(Nibbles(instruction)) = 3
                    /\ pos' = "recv"
                    /\ result' = "running"
                    /\ executed'[Len(executed')].ok
                    /\ UNCHANGED <<program_counter, registers, index, stack, memory,
                                   delay_timer, sound_timer, display, instruction>>]_vars

\* C16 witness: execute was called on 0x0123 and returned Ok.
C16_Witness ==
    /\ pos = "recv"
    /\ executed # << >>
    /\ LastCall.op = 291 /\ LastCall.ok
    /\ result = "running"

\* C17: run on the memory Processor::new builds, main_loop ends in its first
\* cycle: the first fetch reads F0 90 at 0x50 as 0xF090, execute rejects it,
\* and the loop returns that error with the program counter at 0x52.
C17_HaltsOnFont ==
    (pos # "new" /\ memory = New.memory) =>
        /\ ticks <= 1
        /\ pos = "recv" => (ticks = 0 /\ executed = << >>)
        /\ pos = "fetch" => (ticks = 1 /\ program_counter = 80)
        /\ pos = "execute" => (instruction = 61584 /\ program_counter = 82)
        /\ pos = "returned" =>
                /\ ticks = 1
                /\ instruction = 61584
                /\ result = "Invalid instruction: 0xF090!"
                /\ program_counter = 82
                /\ Len(executed) = 1 /\ ~LastCall.ok

\* C17 witness: main_loop has returned the error for 0xF090.
C17_Witness ==
    /\ memory = New.memory
    /\ pos = "returned"
    /\ result = "Invalid instruction: 0xF090!"
    /\ program_counter = 82

\* C18: whatever memory holds, main_loop returns in the end, with the
\* invalid-instruction or the out-of-bounds error and never Ok, after at
\* most 2008 cycles in which fetch and execute both succeeded.  Stated on
\* states: until it has returned the loop always has a next step to take
\* (the tick, the fetch, or the call of execute, which returns for every
\* instruction), every completed cycle has moved the program counter 2
\* further from 0x50, and no more than 2008 cycles complete.
C18_MainLoopEnds ==
    /\ pos # "returned" =>
            /\ result = "running"
            /\ pos = "execute" \/ ENABLED (Enter \/ Recv \/ Fetch)
    /\ pos = "returned" =>
            \/ result = "Program counter out of bounds!"
            \/ result = "Invalid instruction: " \o Hex06(instruction) \o "!"
    /\ ticks <= 2009
    /\ pos = "recv" => (ticks <= 2008 /\ program_counter = 80 + 2 * ticks)
    /\ pos = "fetch" => program_counter = 80 + 2 * (ticks - 1)
    /\ pos = "execute" => program_counter = 80 + 2 * ticks

\* C18 witness: main_loop has returned after exactly 2008 complete cycles.
C18_Witness ==
    /\ pos = "returned"
    /\ ticks = 2009
    /\ Len(executed) = HistLen /\ LastCall.ok /\ LastCall.pc = 4096

\* C19: execute changes no field of the machine; memory, registers, index,
\* stack, timers and display never change, and the program counter and the
\* instruction change only in fetch.
C19_ExecuteChangesNothing ==
    [][/\ pos = "execute" =>
            UNCHANGED <<instruction, program_counter, index, delay_timer,
                        sound_timer, stack, memory, registers, display, tick_rate>>
       /\ UNCHANGED <<memory, registers, index, stack, delay_timer, sound_timer,
                      display>>
       /\ (instruction' # instruction \/ program_counter' # program_counter) =>
            (pos = "fetch" /\ pos' = "execute")]_vars

\* C19 witness: two instructions were executed on a machine started with
\* sixteen registers, VA = 5 and the delay timer set, and both are as they were.
C19_Witness ==
    /\ pos = "recv"
    /\ Len(executed) = 2 /\ LastCall.ok
    /\ DOMAIN registers = 0 .. 15 /\ registers[10] = 5
    /\ delay_timer = MaxTimer

\* C20: a fetch that fails leaves the whole machine as it was, program
\* counter and instruction included; when execute fails the program counter
\* is already 2 past the address the offending instruction was fetched from.
C20_StateAtFailure ==
    [][/\ (pos = "fetch" /\ pos' = "returned") =>
            /\ result' = "Program counter out of bounds!"
            /\ UNCHANGED <<instruction, program_counter, index, delay_timer,
                           sound_timer, stack, memory, registers, display, tick_rate>>
       /\ (pos = "execute" /\ pos' = "returned") =>
            /\ result' = "Invalid instruction: " \o Hex06(instruction) \o "!"
            /\ program_counter' >= 2
            /\ instruction' = Byte(memory, program_counter' - 2) * 256
                                + Byte(memory, program_counter' - 1)]_vars

\* C20 witness: the fetch at 4096 failed after 0x1234 was fetched at 4094:
\* the program counter and the instruction are still those.
C20_Witness ==
    /\ pos = "returned"
    /\ result = "Program counter out of bounds!"
    /\ program_counter = 4096
    /\ instruction = 4660
    /\ ticks >= 2

====
